---- MODULE Spec2Model ----
(***************************************************************************)
(* Model of scripts/lib/tavily_search.py: the Tavily search client         *)
(* (search, search_reddit), the response normaliser (parse_response) and   *)
(* the Reddit filter (parse_reddit_items).                                 *)
(*                                                                         *)
(* Python values are tagged records, so that "key absent", None, "", 0 and *)
(* [] stay distinct.  Python dicts are TLA+ functions over their key set.  *)
(* Strings are TLA+ strings; substring search, split, strip, replace and   *)
(* the ISO date parser work on their characters.                           *)
(*                                                                         *)
(* Input domain: a response is a dict; `results`, when present, is a list; *)
(* title, url and content of an entry, when present, are strings.          *)
(* published_date and score range over strings, numbers, None and absent.  *)
(***************************************************************************)
EXTENDS Integers, Sequences, FiniteSets, TLC

VARIABLES pc, call, request, posts, transport, result, stderr

vars == <<pc, call, request, posts, transport, result, stderr>>

(***************************************************************************)
(* Bounds of the model.                                                    *)
(***************************************************************************)
MaxResults == 3
MaxDomains == 1
MaxDays == 2

(***************************************************************************)
(* Python values.                                                          *)
(***************************************************************************)
PyNone == [t |-> "none"]
PyStr(s) == [t |-> "str", s |-> s]
PyInt(n) == [t |-> "int", n |-> n]
PyFloat(tenths) == [t |-> "float", tenths |-> tenths]
PyBool(b) == [t |-> "bool", b |-> b]
PyList(items) == [t |-> "list", items |-> items]
PyDict(d) == [t |-> "dict", d |-> d]

Truthy(v) ==
    CASE v.t = "none" -> FALSE
      [] v.t = "str" -> Len(v.s) > 0
      [] v.t = "int" -> v.n # 0
      [] v.t = "float" -> v.tenths # 0
      [] v.t = "bool" -> v.b
      [] v.t = "list" -> Len(v.items) > 0
      [] v.t = "dict" -> DOMAIN v.d # {}

\* dict.get(key, default) on the key set of a dict
Get(d, key, default) == IF key \in DOMAIN d THEN d[key] ELSE default

\* d[key] = value
SetItem(d, key, value) ==
    [k \in (DOMAIN d) \cup {key} |-> IF k = key THEN value ELSE d[k]]

\* str(v) and f"{v}"
Format(v) ==
    CASE v.t = "str" -> v.s
      [] v.t = "int" -> ToString(v.n)
      [] v.t = "none" -> "None"
      [] v.t = "bool" -> IF v.b THEN "True" ELSE "False"
      [] OTHER -> "<object>"

Return(v) == [kind |-> "return", value |-> v]
Raise(e) == [kind |-> "raise", exc |-> e]
NoResult == [kind |-> "none"]
NoRequest == [kind |-> "none"]
NoCall == [fn |-> "none"]

(***************************************************************************)
(* String operations used by the module.                                   *)
(***************************************************************************)
Min(a, b) == IF a < b THEN a ELSE b

\* s[i:] with a 1-based i
From(s, i) == SubSeq(s, i, Len(s))

\* s.find(sub), 1-based; 0 when sub does not occur
Find(s, sub) ==
    LET hits == {i \in 1..(Len(s) - Len(sub) + 1) : SubSeq(s, i, i + Len(sub) - 1) = sub}
    IN IF hits = {} THEN 0 ELSE CHOOSE i \in hits : \A j \in hits : i <= j

\* sub in s
Contains(s, sub) == Find(s, sub) # 0

\* s.split(sep), sep non-empty
RECURSIVE Split(_, _)
Split(s, sep) ==
    LET i == Find(s, sep)
    IN IF i = 0 THEN <<s>>
       ELSE <<SubSeq(s, 1, i - 1)>> \o Split(From(s, i + Len(sep)), sep)

\* s.replace(old, new), old a single character
RECURSIVE Replace(_, _, _)
Replace(s, old, new) ==
    IF Len(s) = 0 THEN ""
    ELSE (IF Head(s) = old THEN new ELSE Head(s)) \o Replace(Tail(s), old, new)

IsSpace(c) == c \in {" ", "\t", "\n", "\r"}

RECURSIVE LStrip(_)
LStrip(s) == IF Len(s) > 0 /\ IsSpace(Head(s)) THEN LStrip(Tail(s)) ELSE s

RECURSIVE RStrip(_)
RStrip(s) ==
    IF Len(s) > 0 /\ IsSpace(SubSeq(s, Len(s), Len(s)))
    THEN RStrip(SubSeq(s, 1, Len(s) - 1))
    ELSE s

\* s.strip()
Strip(s) == RStrip(LStrip(s))

(***************************************************************************)
(* search and search_reddit.                                               *)
(***************************************************************************)
TAVILY_SEARCH_URL == "https://api.tavily.com/search"

search_headers == [k \in {"Content-Type"} |-> PyStr("application/json")]

base_payload(api_key, query, search_depth, max_results) ==
    [api_key |-> PyStr(api_key),
     query |-> PyStr(query),
     search_depth |-> PyStr(search_depth),
     include_images |-> PyBool(FALSE),
     include_answer |-> PyBool(FALSE),
     max_results |-> PyInt(max_results)]


\* with_include_domains testing "is not None" instead of truthiness
with_include_domains_notnone(payload, include_domains) ==
    IF include_domains # PyNone
    THEN SetItem(payload, "include_domains", include_domains)
    ELSE payload

with_include_domains(payload, include_domains) ==
    IF Truthy(include_domains)
    THEN SetItem(payload, "include_domains", include_domains)
    ELSE payload

with_exclude_domains(payload, exclude_domains) ==
    IF Truthy(exclude_domains)
    THEN SetItem(payload, "exclude_domains", exclude_domains)
    ELSE payload

with_days(payload, days) ==
    IF days > 0
    THEN SetItem(SetItem(payload, "days", PyInt(days)), "topic", PyStr("news"))
    ELSE payload

\* the payload search hands to http.post
search_payload(a) ==
    with_days(
        with_exclude_domains(
            with_include_domains(
                base_payload(a.api_key, a.query, a.search_depth, a.max_results),
                a.include_domains),
            a.exclude_domains),
        a.days)

\* the http.post call of search
search_request(a) ==
    [kind |-> "post", url |-> TAVILY_SEARCH_URL, payload |-> search_payload(a),
     headers |-> search_headers]


\* search_return keeping only the results of the response
search_return_results(v) == PyDict([k \in (DOMAIN v.d) \cap {"results"} |-> v.d[k]])

\* search returns what http.post returned
search_return(v) == v


\* search_reddit_args relying on the query alone, without include_domains
search_reddit_args_noinclude(api_key, topic, days, max_results) ==
    [api_key |-> api_key,
     query |-> topic \o " site:reddit.com",
     search_depth |-> "advanced",
     include_domains |-> PyNone,
     exclude_domains |-> PyNone,
     max_results |-> max_results,
     days |-> days]

\* the keyword arguments search_reddit passes to search
search_reddit_args(api_key, topic, days, max_results) ==
    [api_key |-> api_key,
     query |-> topic \o " site:reddit.com",
     search_depth |-> "advanced",
     include_domains |-> PyList(<<PyStr("reddit.com")>>),
     exclude_domains |-> PyNone,
     max_results |-> max_results,
     days |-> days]

(***************************************************************************)
(* datetime.fromisoformat and strftime("%Y-%m-%d"), as parse_response uses *)
(* them.  The grammar is the one every supported interpreter accepts:      *)
(* YYYY-MM-DD[*HH[:MM[:SS[.fff[fff]]]][(+|-)HH:MM[:SS]]].                  *)
(***************************************************************************)
Digits == {"0", "1", "2", "3", "4", "5", "6", "7", "8", "9"}

DigitVal(c) ==
    CASE c = "0" -> 0 [] c = "1" -> 1 [] c = "2" -> 2 [] c = "3" -> 3
      [] c = "4" -> 4 [] c = "5" -> 5 [] c = "6" -> 6 [] c = "7" -> 7
      [] c = "8" -> 8 [] c = "9" -> 9

CharAt(s, i) == SubSeq(s, i, i)

AllDigits(s) == \A i \in 1..Len(s) : CharAt(s, i) \in Digits

RECURSIVE ToInt(_)
ToInt(s) ==
    IF Len(s) = 0 THEN 0
    ELSE 10 * ToInt(SubSeq(s, 1, Len(s) - 1)) + DigitVal(CharAt(s, Len(s)))

IsLeap(y) == (y % 4 = 0 /\ y % 100 # 0) \/ y % 400 = 0

DaysInMonth(y, m) ==
    IF m = 2 THEN (IF IsLeap(y) THEN 29 ELSE 28)
    ELSE IF m \in {4, 6, 9, 11} THEN 30 ELSE 31

TwoDigits(t, i) == SubSeq(t, i, i + 1)

\* t has the shape HH[:MM[:SS[.fff[fff]]]]
HmsShape(t) ==
    /\ Len(t) \in {2, 5, 8, 12, 15}
    /\ AllDigits(TwoDigits(t, 1))
    /\ Len(t) >= 5 => CharAt(t, 3) = ":" /\ AllDigits(TwoDigits(t, 4))
    /\ Len(t) >= 8 => CharAt(t, 6) = ":" /\ AllDigits(TwoDigits(t, 7))
    /\ Len(t) >= 12 => CharAt(t, 9) = "." /\ AllDigits(SubSeq(t, 10, Len(t)))

Hours(t) == ToInt(TwoDigits(t, 1))
Minutes(t) == IF Len(t) >= 5 THEN ToInt(TwoDigits(t, 4)) ELSE 0
Seconds(t) == IF Len(t) >= 8 THEN ToInt(TwoDigits(t, 7)) ELSE 0

\* a time of day
ValidClock(t) == HmsShape(t) /\ Hours(t) < 24 /\ Minutes(t) < 60 /\ Seconds(t) < 60

\* a UTC offset without its sign: HH:MM[:SS[.ffffff]], less than a day
ValidOffset(t) ==
    /\ Len(t) \in {5, 8, 15}
    /\ HmsShape(t)
    /\ Hours(t) * 3600 + Minutes(t) * 60 + Seconds(t) < 86400

FirstOf(p, m) == IF p = 0 THEN m ELSE IF m = 0 THEN p ELSE Min(p, m)

\* where the UTC offset starts in a time string, 0 when there is none
TzPos(t) == FirstOf(Find(t, "+"), Find(t, "-"))

ValidTime(t) ==
    IF TzPos(t) = 0 THEN ValidClock(t)
    ELSE ValidClock(SubSeq(t, 1, TzPos(t) - 1)) /\ ValidOffset(From(t, TzPos(t) + 1))

DateShape(s) ==
    /\ Len(s) >= 10
    /\ AllDigits(SubSeq(s, 1, 4)) /\ CharAt(s, 5) = "-"
    /\ AllDigits(SubSeq(s, 6, 7)) /\ CharAt(s, 8) = "-"
    /\ AllDigits(SubSeq(s, 9, 10))

ValidCalendarDate(y, m, d) == y >= 1 /\ m \in 1..12 /\ d \in 1..DaysInMonth(y, m)

CalendarDate(y, m, d) ==
    IF ValidCalendarDate(y, m, d)
    THEN [ok |-> TRUE, year |-> y, month |-> m, day |-> d]
    ELSE [ok |-> FALSE, year |-> 0, month |-> 0, day |-> 0]

InvalidDate == CalendarDate(0, 0, 0)

\* datetime.fromisoformat(s): the parsed calendar date, or ok = FALSE for
\* the ValueError it raises
fromisoformat(s) ==
    IF DateShape(s) /\ (Len(s) > 10 => ValidTime(From(s, 12)))
    THEN CalendarDate(ToInt(SubSeq(s, 1, 4)), ToInt(SubSeq(s, 6, 7)),
                      ToInt(SubSeq(s, 9, 10)))
    ELSE InvalidDate

Pad(n, width) ==
    LET str == ToString(n)
    IN IF Len(str) >= width THEN str
       ELSE SubSeq("0000", 1, width - Len(str)) \o str

\* dt.strftime("%Y-%m-%d")
strftime(dt) == Pad(dt.year, 4) \o "-" \o Pad(dt.month, 2) \o "-" \o Pad(dt.day, 2)

(***************************************************************************)
(* parse_response.  An outcome is the value returned or the exception      *)
(* raised, together with the lines written to stderr.                      *)
(***************************************************************************)
Outcome(res, log) == [result |-> res, log |-> log]

\* _log_error(msg): the line written to stderr
_log_error(msg) == "[TAVILY ERROR] " \o msg \o "\n"

\* isinstance(item, dict)
IsDict(v) == v.t = "dict"

\* the clean_item built from a mapping entry, before the date clean-up
clean_item(item) ==
    [title |-> PyStr(Strip(Format(Get(item, "title", PyStr(""))))),
     url |-> Get(item, "url", PyStr("")),
     content |-> Get(item, "content", PyStr("")),
     date |-> Get(item, "published_date", PyNone),
     score |-> Get(item, "score", PyNone),
     snippet |-> Get(item, "content", PyStr(""))]

\* the exception classes the date clean-up catches
CaughtByDateCleanup == {"ValueError", "TypeError"}

\* evaluation of datetime.fromisoformat(date.replace('Z', '+00:00'))
\*   .strftime("%Y-%m-%d"): the new date, or the exception raised
reformat_date(date) ==
    IF date.t # "str" THEN Raise("AttributeError")
    ELSE LET dt == fromisoformat(Replace(date.s, "Z", "+00:00"))
         IN IF dt.ok THEN Return(PyStr(strftime(dt))) ELSE Raise("ValueError")

\* the "if clean_item['date']: try ... except (ValueError, TypeError): pass"
\* block: the date to store, or the exception that escapes it
clean_date(date) ==
    IF ~Truthy(date) THEN Return(date)
    ELSE LET r == reformat_date(date)
         IN IF r.kind = "raise" /\ r.exc \in CaughtByDateCleanup
            THEN Return(date)
            ELSE r

\* the for loop of parse_response over results[i..], items accumulated so far
RECURSIVE parse_loop(_, _, _)
parse_loop(results, i, items) ==
    IF i > Len(results) THEN Return(PyList(items))
    ELSE IF ~IsDict(results[i]) THEN parse_loop(results, i + 1, items)
    ELSE LET c == clean_item(results[i].d)
             d == clean_date(c.date)
         IN IF d.kind = "raise" THEN d
            ELSE parse_loop(results, i + 1,
                            Append(items, PyDict([c EXCEPT !.date = d.value])))


\* parse_response looking at the error key only when there are no results
parse_response_resultsfirst(response) ==
    IF "error" \in DOMAIN response /\ "results" \notin DOMAIN response
    THEN Outcome(Return(PyList(<<>>)),
                 <<_log_error("API error: " \o Format(response["error"]))>>)
    ELSE Outcome(parse_loop(Get(response, "results", PyList(<<>>)).items, 1, <<>>),
                 <<>>)

parse_response(response) ==
    IF "error" \in DOMAIN response
    THEN Outcome(Return(PyList(<<>>)),
                 <<_log_error("API error: " \o Format(response["error"]))>>)
    ELSE Outcome(parse_loop(Get(response, "results", PyList(<<>>)).items, 1, <<>>),
                 <<>>)

(***************************************************************************)
(* parse_reddit_items.                                                     *)
(***************************************************************************)

\* is_reddit_thread without the /comments/ test
is_reddit_thread_anypage(url) == Contains(url, "reddit.com/r/")

\* the filter: the item is skipped unless this holds
is_reddit_thread(url) == Contains(url, "reddit.com/r/") /\ Contains(url, "/comments/")

subreddit_of(url) ==
    LET parts == Split(url, "/r/")
    IN IF Len(parts) > 1 THEN Split(parts[2], "/")[1] ELSE ""


\* reddit_id using the 0-based index as it is
reddit_id_zerobased(i) == "R" \o ToString(i)

\* the id given to the item at 0-based position i of raw_items
reddit_id(i) == "R" \o ToString(i + 1)

\* the clean_item built for the item at 0-based position i of raw_items
reddit_item(i, item) ==
    LET url == Get(item, "url", PyStr(""))
    IN [id |-> PyStr(reddit_id(i)),
        title |-> Get(item, "title", PyStr("")),
        url |-> url,
        subreddit |-> PyStr(subreddit_of(url.s)),
        date |-> Get(item, "date", PyNone),
        why_relevant |->
            PyStr(SubSeq(Get(item, "content", PyStr("")).s, 1,
                         Min(200, Len(Get(item, "content", PyStr("")).s))) \o "..."),
        relevance |-> Get(item, "score", PyFloat(8))]

\* the for loop of parse_reddit_items over raw_items[i+1..] (i 0-based)
RECURSIVE reddit_loop(_, _, _)
reddit_loop(raw_items, i, clean_items) ==
    IF i >= Len(raw_items) THEN clean_items
    ELSE LET item == raw_items[i + 1].d
         IN IF ~is_reddit_thread(Get(item, "url", PyStr("")).s)
            THEN reddit_loop(raw_items, i + 1, clean_items)
            ELSE reddit_loop(raw_items, i + 1,
                             Append(clean_items, PyDict(reddit_item(i, item))))

parse_reddit_items(response) ==
    LET raw == parse_response(response)
    IN IF raw.result.kind = "raise" THEN raw
       ELSE Outcome(Return(PyList(reddit_loop(raw.result.value.items, 0, <<>>))),
                    raw.log)

(***************************************************************************)
(* Inputs.                                                                 *)
(***************************************************************************)
SeqsUpTo(S, n) == UNION {[1..k -> S] : k \in 0..n}

ApiKeys == {"tvly-key"}
Queries == {"", "ai news"}
Topics == {"", "rust"}
Depths == {"advanced", "basic"}
DomainNames == {PyStr("reddit.com"), PyStr("example.org")}
DomainLists == {PyNone} \cup {PyList(l) : l \in SeqsUpTo(DomainNames, MaxDomains)}
ResultLimits == {5, 20}
DayValues == (-1)..MaxDays

SearchArgs ==
    [api_key : ApiKeys, query : Queries, search_depth : Depths,
     include_domains : DomainLists, exclude_domains : DomainLists,
     max_results : ResultLimits, days : DayValues]

RECURSIVE Repeat(_, _)
Repeat(c, n) == IF n = 0 THEN "" ELSE c \o Repeat(c, n - 1)

LongContent == Repeat("0123456789", 21)

Absent == [t |-> "absent"]

\* the dict with the given fields, leaving out those that are Absent
Entry(title, url, content, date, score) ==
    LET all == [title |-> title, url |-> url, content |-> content,
                published_date |-> date, score |-> score]
    IN PyDict([k \in {f \in DOMAIN all : all[f] # Absent} |-> all[k]])

UrlThreadA == PyStr("https://www.reddit.com/r/rust/comments/abc/rust_20/")
UrlThreadB == PyStr("https://reddit.com/r/python/comments/123/title")
UrlOffSite == PyStr("https://example.com/r/x/comments/1")
UrlSubreddit == PyStr("https://www.reddit.com/r/rust/")
UrlPlain == PyStr("https://news.example.org/post")

ThreadA == Entry(PyStr(" Rust 2.0 "), UrlThreadA, PyStr("c"),
                 PyStr("2024-01-02T03:04:05Z"), PyFloat(9))
ThreadB == Entry(PyStr("B"), UrlThreadB, Absent, Absent, Absent)
OffSite == Entry(PyStr("X"), UrlOffSite, PyStr("c"), PyStr("not-a-date"), PyInt(0))
Plain == Entry(Absent, UrlPlain, PyStr("c"), PyStr("2024-02-30"), PyFloat(5))
Junk == PyStr("junk")
BadDateType == Entry(PyStr("T"), UrlThreadB, PyStr("c"), PyInt(20240102), PyFloat(7))

CoreEntries == {ThreadA, ThreadB, OffSite, Plain, Junk, BadDateType}

FieldTitles == {Absent, PyStr(" A ")}
FieldUrls == {Absent, UrlThreadA, UrlOffSite, UrlSubreddit, UrlPlain}
FieldContents == {Absent, PyStr("c"), PyStr(LongContent)}
FieldDates ==
    {Absent, PyNone, PyStr(""), PyStr("2024-01-02T03:04:05Z"), PyStr("2024-01-02"),
     PyStr("not-a-date"), PyInt(20240102), PyInt(0), PyList(<<>>),
     PyList(<<PyInt(2024)>>)}
FieldScores == {Absent, PyNone, PyInt(0), PyFloat(0), PyFloat(9)}

FieldEntries ==
    {Entry(t, u, c, d, sc) : t \in FieldTitles, u \in FieldUrls, c \in FieldContents,
                             d \in FieldDates, sc \in FieldScores}

ResultLists ==
    {Absent} \cup {PyList(l) : l \in SeqsUpTo(CoreEntries, MaxResults)}
             \cup {PyList(<<e>>) : e \in FieldEntries}

Errors == {Absent, PyStr("quota exceeded")}

Response(results, error) ==
    LET all == [results |-> results, error |-> error]
    IN [k \in {f \in DOMAIN all : all[f] # Absent} |-> all[k]]

Responses == {Response(r, e) : r \in ResultLists, e \in Errors}

\* what the transport may hand back, and the exceptions it may raise
TransportValues ==
    {PyDict(Response(PyList(<<>>), Absent)),
     PyDict(Response(PyList(<<ThreadA, Plain>>), Absent)),
     PyDict(Response(Absent, PyStr("quota exceeded")))}
TransportErrors == {"HTTPError", "TimeoutError"}

(***************************************************************************)
(* The state machine: one call of one of the four functions.               *)
(***************************************************************************)
Init ==
    /\ pc = "idle"
    /\ call = NoCall
    /\ request = NoRequest
    /\ posts = 0
    /\ transport = NoResult
    /\ result = NoResult
    /\ stderr = <<>>

\* search(...) up to its call of http.post
Search(a) ==
    /\ pc = "idle"
    /\ call' = [fn |-> "search", args |-> a]
    /\ request' = search_request(a)
    /\ posts' = posts + 1
    /\ pc' = "http_post"
    /\ UNCHANGED <<transport, result, stderr>>

\* search_reddit(...) up to the call of http.post made by search
SearchReddit(api_key, topic, days, max_results) ==
    /\ pc = "idle"
    /\ call' = [fn |-> "search_reddit",
                args |-> [api_key |-> api_key, topic |-> topic, days |-> days,
                          max_results |-> max_results]]
    /\ request' = search_request(search_reddit_args(api_key, topic, days, max_results))
    /\ posts' = posts + 1
    /\ pc' = "http_post"
    /\ UNCHANGED <<transport, result, stderr>>

\* http.post returns v and search returns
HttpPostReturns(v) ==
    /\ pc = "http_post"
    /\ transport' = Return(v)
    /\ result' = Return(search_return(v))
    /\ pc' = "done"
    /\ UNCHANGED <<call, request, posts, stderr>>

\* http.post raises e, which search does not catch
HttpPostRaises(e) ==
    /\ pc = "http_post"
    /\ transport' = Raise(e)
    /\ result' = Raise(e)
    /\ pc' = "done"
    /\ UNCHANGED <<call, request, posts, stderr>>

ParseResponse(response) ==
    /\ pc = "idle"
    /\ call' = [fn |-> "parse_response", args |-> [response |-> response]]
    /\ LET o == parse_response(response)
       IN result' = o.result /\ stderr' = stderr \o o.log
    /\ pc' = "done"
    /\ UNCHANGED <<request, posts, transport>>

ParseRedditItems(response) ==
    /\ pc = "idle"
    /\ call' = [fn |-> "parse_reddit_items", args |-> [response |-> response]]
    /\ LET o == parse_reddit_items(response)
       IN result' = o.result /\ stderr' = stderr \o o.log
    /\ pc' = "done"
    /\ UNCHANGED <<request, posts, transport>>

Next ==
    \/ \E a \in SearchArgs : Search(a)
    \/ \E k \in ApiKeys, t \in Topics, d \in DayValues, m \in ResultLimits :
           SearchReddit(k, t, d, m)
    \/ \E v \in TransportValues : HttpPostReturns(v)
    \/ \E e \in TransportErrors : HttpPostRaises(e)
    \/ \E r \in Responses : ParseResponse(r)
    \/ \E r \in Responses : ParseRedditItems(r)

Spec == Init /\ [][Next]_vars

(***************************************************************************)
(* Properties.                                                             *)
(***************************************************************************)
Returned(fn) == pc = "done" /\ call.fn = fn /\ result.kind = "return"

\* the response a parse call was given, its results list ([] when absent),
\* and the mapping entries of that list in order
GivenResponse == call.args.response
GivenResults == Get(GivenResponse, "results", PyList(<<>>)).items
MappingEntries == SelectSeq(GivenResults, LAMBDA e : e.t = "dict")
ReturnedItems == result.value.items

\* the entries behind the normalized list, in its order: none on an error
\* response, the mapping entries of results otherwise
NormalizedEntries == IF "error" \in DOMAIN GivenResponse THEN <<>> ELSE MappingEntries

IsNonEmptyList(v) == v.t = "list" /\ Len(v.items) > 0

AlwaysSentKeys ==
    {"api_key", "query", "search_depth", "include_images", "include_answer",
     "max_results"}

\* C1: the payload search hands to the transport has exactly the six fixed
\* keys, plus include_domains iff that argument is a non-empty list (then that
\* very list), exclude_domains iff that argument is a non-empty list, and days
\* and topic together iff days > 0; no empty list is ever sent.
C1_PayloadKeys ==
    call.fn = "search" =>
        LET a == call.args
            p == request.payload
        IN /\ DOMAIN p =
                AlwaysSentKeys
                \cup (IF IsNonEmptyList(a.include_domains) THEN {"include_domains"} ELSE {})
                \cup (IF IsNonEmptyList(a.exclude_domains) THEN {"exclude_domains"} ELSE {})
                \cup (IF a.days > 0 THEN {"days", "topic"} ELSE {})
           /\ "include_domains" \in DOMAIN p => p["include_domains"] = a.include_domains
           /\ "exclude_domains" \in DOMAIN p => p["exclude_domains"] = a.exclude_domains
           /\ "days" \in DOMAIN p => p["days"] = PyInt(a.days)
           /\ \A k \in DOMAIN p : p[k] # PyList(<<>>)

C1_Witness ==
    /\ call.fn = "search"
    /\ request.kind = "post"
    /\ IsNonEmptyList(call.args.include_domains)
    /\ call.args.exclude_domains = PyList(<<>>)
    /\ call.args.days = 0
    /\ "include_domains" \in DOMAIN request.payload
    /\ "exclude_domains" \notin DOMAIN request.payload

\* C2: a call of search or search_reddit makes exactly one http.post call,
\* whether it returns or raises; search returns the transport's value as it
\* is, and an exception of the transport reaches the caller as it is.
C2_OnePostPassThrough ==
    call.fn \in {"search", "search_reddit"} =>
        /\ posts = 1
        /\ pc = "done" => transport.kind # "none" /\ result = transport

C2_Witness ==
    /\ call.fn = "search_reddit"
    /\ pc = "done"
    /\ posts = 1
    /\ transport = Raise("TimeoutError")
    /\ result = Raise("TimeoutError")

\* C3: on a response with an error key, whatever else it holds, parse_response
\* and parse_reddit_items return the empty list and write exactly one line to
\* stderr; on a response without an error key nothing is written.
C3_ErrorResponse ==
    (pc = "done" /\ call.fn \in {"parse_response", "parse_reddit_items"}) =>
        IF "error" \in DOMAIN GivenResponse
        THEN result = Return(PyList(<<>>)) /\ Len(stderr) = 1
        ELSE stderr = <<>>

C3_Witness ==
    /\ pc = "done"
    /\ call.fn = "parse_reddit_items"
    /\ "error" \in DOMAIN GivenResponse
    /\ Len(GivenResults) > 0
    /\ result = Return(PyList(<<>>))
    /\ stderr = <<"[TAVILY ERROR] API error: quota exceeded\n">>

\* the published_date of an entry as extracted (None when absent)
ExtractedDate(entry) == Get(entry.d, "published_date", PyNone)

\* a date that cannot be reformatted: absent or None, of a non-string type,
\* or a string that is not an ISO date
Unparseable(date) ==
    \/ date.t # "str"
    \/ ~fromisoformat(Replace(date.s, "Z", "+00:00")).ok

\* C4: parse_response completes normally whatever the published_date of its
\* entries, and every mapping entry whose published_date is absent, malformed
\* or of a wrong type yields an item whose date is the value extracted.
C4_DateFailureTolerated ==
    (pc = "done" /\ call.fn = "parse_response" /\ "error" \notin DOMAIN GivenResponse) =>
        /\ result.kind = "return"
        /\ Len(ReturnedItems) = Len(MappingEntries)
        /\ \A k \in 1..Len(MappingEntries) :
               Unparseable(ExtractedDate(MappingEntries[k])) =>
                   ReturnedItems[k].d.date = ExtractedDate(MappingEntries[k])

\* C5: the n-th item returned by parse_reddit_items has id R<n>.
C5_DenseIds ==
    Returned("parse_reddit_items") =>
        \A n \in 1..Len(ReturnedItems) :
            ReturnedItems[n].d.id = PyStr("R" \o ToString(n))

\* the number in an id R<number>
IdNum(id) == ToInt(From(id.s, 2))

\* the url of an entry as normalized ("" when absent)
NormalizedUrl(entry) == Get(entry.d, "url", PyStr(""))

\* C6: every item returned by parse_reddit_items has id R<i+1>, i the 0-based
\* position of its source in the normalized list, which holds the mapping
\* entries of results in order; the ids are strictly increasing in output order.
C6_IdIsNormalizedIndex ==
    Returned("parse_reddit_items") =>
        \A n \in 1..Len(ReturnedItems) :
            LET item == ReturnedItems[n].d
                i == IdNum(item.id)
            IN /\ CharAt(item.id.s, 1) = "R"
               /\ AllDigits(From(item.id.s, 2))
               /\ i \in 1..Len(NormalizedEntries)
               /\ item.url = NormalizedUrl(NormalizedEntries[i])
               /\ item.title.s = Strip(Get(NormalizedEntries[i].d, "title", PyStr("")).s)
               /\ n > 1 => IdNum(ReturnedItems[n - 1].d.id) < i

C6_Witness ==
    /\ Returned("parse_reddit_items")
    /\ Len(GivenResults) = 3
    /\ GivenResults[1] = Junk
    /\ GivenResults[2] = Plain
    /\ Len(ReturnedItems) = 1
    /\ ReturnedItems[1].d.id = PyStr("R2")

\* C7: the relevance of a returned item is the score of its source entry when
\* that score is present and truthy, and 0.8 otherwise; it is never None.
C7_RelevanceDefault ==
    Returned("parse_reddit_items") =>
        \A n \in 1..Len(ReturnedItems) :
            LET item == ReturnedItems[n].d
                source == NormalizedEntries[IdNum(item.id)].d
            IN /\ item.relevance # PyNone
               /\ item.relevance =
                      IF "score" \in DOMAIN source /\ Truthy(source["score"])
                      THEN source["score"]
                      ELSE PyFloat(8)

\* the urls of the returned items, and the normalized urls satisfying Keep
ReturnedUrls == [n \in 1..Len(ReturnedItems) |-> ReturnedItems[n].d.url.s]
NormalizedUrls == [k \in 1..Len(NormalizedEntries) |-> NormalizedUrl(NormalizedEntries[k]).s]

\* C8 as stated: the items kept are those whose url contains both /r/ and
\* /comments/, one output item each, in normalized order.
C8_KeepsAnyRSlashComments ==
    Returned("parse_reddit_items") =>
        ReturnedUrls =
            SelectSeq(NormalizedUrls,
                      LAMBDA u : Find(u, "/r/") > 0 /\ Find(u, "/comments/") > 0)

\* C8 amended: the items kept are those whose url contains both reddit.com/r/
\* and /comments/, one output item each, in normalized order.
C8_KeepsRedditThreads ==
    Returned("parse_reddit_items") =>
        ReturnedUrls =
            SelectSeq(NormalizedUrls,
                      LAMBDA u : Find(u, "reddit.com/r/") > 0 /\ Find(u, "/comments/") > 0)

C8_Witness ==
    /\ Returned("parse_reddit_items")
    /\ Len(GivenResults) = 3
    /\ GivenResults[1] = OffSite
    /\ GivenResults[2] = ThreadA
    /\ GivenResults[3] = Plain
    /\ ReturnedUrls = <<UrlThreadA.s>>

\* C9: on a response without an error key parse_response returns one item per
\* mapping entry of results, in input order, skipping the other entries.
C9_OneItemPerMapping ==
    (pc = "done" /\ call.fn = "parse_response" /\ "error" \notin DOMAIN GivenResponse) =>
        /\ result.kind = "return"
        /\ Len(ReturnedItems) = Len(MappingEntries)
        /\ \A k \in 1..Len(MappingEntries) :
               /\ ReturnedItems[k].d.url = NormalizedUrl(MappingEntries[k])
               /\ ReturnedItems[k].d.score = Get(MappingEntries[k].d, "score", PyNone)

\* C10: the payload of search_reddit has the topic followed by
\* " site:reddit.com" as query, include_domains ["reddit.com"], no
\* exclude_domains, search_depth advanced, the caller's max_results, and days
\* and topic exactly when days > 0; it is posted once, to the search endpoint.
C10_RedditPayload ==
    call.fn = "search_reddit" =>
        LET a == call.args
            p == request.payload
            q == p["query"].s
        IN /\ DOMAIN p =
                AlwaysSentKeys \cup {"include_domains"}
                \cup (IF a.days > 0 THEN {"days", "topic"} ELSE {})
           /\ Len(q) = Len(a.topic) + 16
           /\ SubSeq(q, 1, Len(a.topic)) = a.topic
           /\ From(q, Len(a.topic) + 1) = " site:reddit.com"
           /\ p["include_domains"] = PyList(<<PyStr("reddit.com")>>)
           /\ p["search_depth"] = PyStr("advanced")
           /\ p["max_results"] = PyInt(a.max_results)
           /\ p["api_key"] = PyStr(a.api_key)
           /\ a.days > 0 => p["days"] = PyInt(a.days) /\ p["topic"] = PyStr("news")
           /\ request.url = TAVILY_SEARCH_URL
           /\ posts = 1

C10_Witness ==
    /\ call.fn = "search_reddit"
    /\ call.args.topic = ""
    /\ call.args.days = 0
    /\ request.kind = "post"
    /\ request.payload["query"] = PyStr(" site:reddit.com")
    /\ "days" \notin DOMAIN request.payload

====
